---- MODULE Spec2Model ----
(***************************************************************************)
(* A model of psiphon/remoteServerList.go: the Conns connection registry   *)
(* (Reset, Add, Remove, CloseAll behind one sync.Mutex) driven by          *)
(* concurrent callers, and the FetchRemoteServerList pipeline with its     *)
(* signature gate validateRemoteServerList.                                *)
(***************************************************************************)
EXTENDS Integers, Sequences, FiniteSets, TLC

\* ------------------------------------------------------------------------
\* Bounds and value universes
\* ------------------------------------------------------------------------

\* The number of registry calls the callers issue in one behaviour.
MaxCalls == 3

\* The goroutines calling into the registry.
Threads == {"g1", "g2"}

\* The net.Conn values handed to Add and Remove.
ConnIds == {"c1", "c2"}

NoThread == "none"
NoConn == "none"

VARIABLES
    mutex,      \* Conns.mutex: the goroutine holding it, or NoThread
    isClosed,   \* Conns.isClosed
    conns,      \* the keys of the map Conns.conns
    connsNil,   \* TRUE while Conns.conns is the nil map (never made)
    pc,         \* each goroutine's position inside its current call
    op,         \* the method a goroutine is executing
    arg,        \* the conn argument of that method
    ret,        \* the value Add is about to return
    iter,       \* CloseAll: the map keys the range loop has yet to visit
    closing,    \* CloseAll: the conn whose Close() is in progress
    cur,        \* the index in calls of a goroutine's current call
    calls,      \* the calls in the order they acquired the mutex
    publicKey,  \* config.RemoteServerListSignaturePublicKey
    fpc,        \* FetchRemoteServerList: the statement to execute next
    bodyOpen,   \* response.Body is open (its deferred Close has not run)
    body,       \* the bytes ioutil.ReadAll returned
    remoteServerList,   \* the *RemoteServerList json.Unmarshal filled in
    serverEntries,      \* what DecodeAndValidateServerEntryList returned
    ferr,       \* the error FetchRemoteServerList returned
    invoked,    \* the collaborators called so far, in order
    relayPc,    \* Relay: the statement its calling path executes next
    goPc,       \* Relay: the position of the goroutine it spawns
    copyWaitGroup,  \* Relay: the counter of copyWaitGroup
    connClosed, \* localConn, remoteConn: closed (or broken) at this end
    inbox,      \* the chunks each conn holds ready for Read
    peerDone,   \* the peer of each conn has ended its stream (EOF follows)
    sent,       \* the chunks the peer of each conn has sent, in all
    delivered,  \* the chunks written to each conn
    copyErr,    \* what io.Copy returned in each direction
    alerts,     \* the NoticeAlert calls made
    proxyPc,    \* HttpProxyConnect: the statement to execute next
    addr,       \* HttpProxyConnect: its addr argument
    hostname,   \* HttpProxyConnect: what net.SplitHostPort returned
    written,    \* the byte strings passed to rawConn.Write, in order
    readCount,  \* the http.ReadResponse calls made on rawConn
    statusLine, \* the status line the proxy answered with
    response,   \* the *http.Response read
    proxyErr    \* the error HttpProxyConnect returned

connsVars == <<mutex, isClosed, conns, connsNil, pc, op, arg, ret, iter,
               closing, cur, calls>>

fetchVars == <<publicKey, fpc, bodyOpen, body, remoteServerList,
               serverEntries, ferr, invoked>>

relayVars == <<relayPc, goPc, copyWaitGroup, connClosed, inbox, peerDone,
               sent, delivered, copyErr, alerts>>

proxyVars == <<proxyPc, addr, hostname, written, readCount, statusLine,
               response, proxyErr>>

vars == <<connsVars, fetchVars, relayVars, proxyVars>>

\* ------------------------------------------------------------------------
\* Conns
\* ------------------------------------------------------------------------

ZeroCount == [c \in ConnIds |-> 0]

\* The zero value of the Conns struct: open, with a nil map.
ConnsInit ==
    /\ mutex = NoThread
    /\ isClosed = FALSE
    /\ conns = {}
    /\ connsNil = TRUE
    /\ pc = [t \in Threads |-> "idle"]
    /\ op = [t \in Threads |-> "none"]
    /\ arg = [t \in Threads |-> NoConn]
    /\ ret = [t \in Threads |-> "none"]
    /\ iter = [t \in Threads |-> {}]
    /\ closing = [t \in Threads |-> NoConn]
    /\ cur = [t \in Threads |-> 0]
    /\ calls = <<>>

\* The calls issued so far: those that hold or held the mutex and those
\* waiting for it.
Issued == Len(calls) + Cardinality({t \in Threads : pc[t] = "lock"})

\* The first statement after mutex.Lock() of each method.
Entry(o) ==
    CASE o = "Reset" -> "reset_flag"
      [] o = "Add" -> "add_check"
      [] o = "Remove" -> "remove_delete"
      [] o = "CloseAll" -> "closeall_flag"

\* A goroutine calls one of the four methods.
Call(t, o, c) ==
    /\ pc[t] = "idle"
    /\ Issued < MaxCalls
    /\ pc' = [pc EXCEPT ![t] = "lock"]
    /\ op' = [op EXCEPT ![t] = o]
    /\ arg' = [arg EXCEPT ![t] = c]
    /\ ret' = [ret EXCEPT ![t] = "none"]
    /\ UNCHANGED <<mutex, isClosed, conns, connsNil, iter, closing, cur, calls,
                 fetchVars, relayVars, proxyVars>>

\* A Lock() that excludes nobody.
LockFree_NoExclusion(t) == TRUE

\* sync.Mutex.Lock() returns only when no goroutine holds the mutex.
LockFree(t) == mutex = NoThread

\* conns.mutex.Lock(): the call is accepted; the log records what it found.
Lock(t) ==
    /\ pc[t] = "lock"
    /\ LockFree(t)
    /\ mutex' = t
    /\ calls' = Append(calls,
                       [t |-> t, op |-> op[t], conn |-> arg[t],
                        preClosed |-> isClosed, preConns |-> conns,
                        preNil |-> connsNil, postNil |-> connsNil,
                        done |-> FALSE, ret |-> "none",
                        closed |-> ZeroCount, failed |-> {},
                        postClosed |-> isClosed, postConns |-> conns])
    /\ cur' = [cur EXCEPT ![t] = Len(calls) + 1]
    /\ pc' = [pc EXCEPT ![t] = Entry(op[t])]
    /\ UNCHANGED <<isClosed, conns, connsNil, op, arg, ret, iter, closing,
                 fetchVars, relayVars, proxyVars>>

\* A Reset that leaves the flag as it was.
ResetFlag_Kept(t) ==
    /\ pc[t] = "reset_flag"
    /\ isClosed' = isClosed
    /\ pc' = [pc EXCEPT ![t] = "reset_map"]
    /\ UNCHANGED <<mutex, conns, connsNil, op, arg, ret, iter, closing, cur, calls,
                 fetchVars, relayVars, proxyVars>>

\* Reset: conns.isClosed = false
ResetFlag(t) ==
    /\ pc[t] = "reset_flag"
    /\ isClosed' = FALSE
    /\ pc' = [pc EXCEPT ![t] = "reset_map"]
    /\ UNCHANGED <<mutex, conns, connsNil, op, arg, ret, iter, closing, cur, calls,
                 fetchVars, relayVars, proxyVars>>

\* A Reset that keeps the map it found.
ResetMap_Kept(t) ==
    /\ pc[t] = "reset_map"
    /\ conns' = conns
    /\ connsNil' = connsNil
    /\ pc' = [pc EXCEPT ![t] = "unlock"]
    /\ UNCHANGED <<mutex, isClosed, op, arg, ret, iter, closing, cur, calls,
                 fetchVars, relayVars, proxyVars>>

\* Reset: conns.conns = make(map[net.Conn]bool)
ResetMap(t) ==
    /\ pc[t] = "reset_map"
    /\ conns' = {}
    /\ connsNil' = FALSE
    /\ pc' = [pc EXCEPT ![t] = "unlock"]
    /\ UNCHANGED <<mutex, isClosed, op, arg, ret, iter, closing, cur, calls,
                 fetchVars, relayVars, proxyVars>>

\* An Add without the isClosed test.
AddCheck_NoTest(t) ==
    /\ pc[t] = "add_check"
    /\ ret' = ret
    /\ pc' = [pc EXCEPT ![t] = "add_make"]
    /\ UNCHANGED <<mutex, isClosed, conns, connsNil, op, arg, iter, closing, cur, calls,
                 fetchVars, relayVars, proxyVars>>

\* Add: if conns.isClosed { return false }
AddCheck(t) ==
    /\ pc[t] = "add_check"
    /\ IF isClosed
       THEN /\ ret' = [ret EXCEPT ![t] = "false"]
            /\ pc' = [pc EXCEPT ![t] = "unlock"]
       ELSE /\ ret' = ret
            /\ pc' = [pc EXCEPT ![t] = "add_make"]
    /\ UNCHANGED <<mutex, isClosed, conns, connsNil, op, arg, iter, closing, cur, calls,
                 fetchVars, relayVars, proxyVars>>

\* Add: if conns.conns == nil { conns.conns = make(map[net.Conn]bool) }
AddMake(t) ==
    /\ pc[t] = "add_make"
    /\ connsNil' = FALSE
    /\ conns' = IF connsNil THEN {} ELSE conns
    /\ pc' = [pc EXCEPT ![t] = "add_insert"]
    /\ UNCHANGED <<mutex, isClosed, op, arg, ret, iter, closing, cur, calls,
                 fetchVars, relayVars, proxyVars>>

\* Add: conns.conns[conn] = true; return true
AddInsert(t) ==
    /\ pc[t] = "add_insert"
    /\ conns' = conns \cup {arg[t]}
    /\ ret' = [ret EXCEPT ![t] = "true"]
    /\ pc' = [pc EXCEPT ![t] = "unlock"]
    /\ UNCHANGED <<mutex, isClosed, connsNil, op, arg, iter, closing, cur, calls,
                 fetchVars, relayVars, proxyVars>>

\* A Remove that drops every key.
RemoveDelete_All(t) ==
    /\ pc[t] = "remove_delete"
    /\ conns' = {}
    /\ pc' = [pc EXCEPT ![t] = "unlock"]
    /\ UNCHANGED <<mutex, isClosed, connsNil, op, arg, ret, iter, closing, cur, calls,
                 fetchVars, relayVars, proxyVars>>

\* Remove: delete(conns.conns, conn); deleting from a nil map does nothing.
RemoveDelete(t) ==
    /\ pc[t] = "remove_delete"
    /\ conns' = conns \ {arg[t]}
    /\ pc' = [pc EXCEPT ![t] = "unlock"]
    /\ UNCHANGED <<mutex, isClosed, connsNil, op, arg, ret, iter, closing, cur, calls,
                 fetchVars, relayVars, proxyVars>>

\* A CloseAll that never sets the flag.
CloseAllFlag_NotSet(t) ==
    /\ pc[t] = "closeall_flag"
    /\ isClosed' = isClosed
    /\ iter' = [iter EXCEPT ![t] = conns]
    /\ pc' = [pc EXCEPT ![t] = "closeall_range"]
    /\ UNCHANGED <<mutex, conns, connsNil, op, arg, ret, closing, cur, calls,
                 fetchVars, relayVars, proxyVars>>

\* CloseAll: conns.isClosed = true, then the range loop starts over the
\* keys the map holds.
CloseAllFlag(t) ==
    /\ pc[t] = "closeall_flag"
    /\ isClosed' = TRUE
    /\ iter' = [iter EXCEPT ![t] = conns]
    /\ pc' = [pc EXCEPT ![t] = "closeall_range"]
    /\ UNCHANGED <<mutex, conns, connsNil, op, arg, ret, closing, cur, calls,
                 fetchVars, relayVars, proxyVars>>

\* CloseAll: for conn, _ := range conns.conns -- the next key, in any order;
\* a key deleted before the loop reaches it is not produced.
CloseAllRange(t) ==
    /\ pc[t] = "closeall_range"
    /\ IF iter[t] \cap conns = {}
       THEN /\ pc' = [pc EXCEPT ![t] = "closeall_map"]
            /\ iter' = [iter EXCEPT ![t] = {}]
            /\ closing' = closing
       ELSE \E c \in iter[t] \cap conns :
            /\ closing' = [closing EXCEPT ![t] = c]
            /\ iter' = [iter EXCEPT ![t] = iter[t] \ {c}]
            /\ pc' = [pc EXCEPT ![t] = "closeall_close"]
    /\ UNCHANGED <<mutex, isClosed, conns, connsNil, op, arg, ret, cur, calls,
                 fetchVars, relayVars, proxyVars>>

\* A CloseAll whose loop ends at the first Close() that fails.
CloseAllClose_StopOnError(t) ==
    /\ pc[t] = "closeall_close"
    /\ \E failure \in BOOLEAN :
        /\ calls' = [calls EXCEPT
                      ![cur[t]].closed[closing[t]] = @ + 1,
                      ![cur[t]].failed =
                          IF failure THEN @ \cup {closing[t]} ELSE @]
        /\ pc' = [pc EXCEPT ![t] =
                      IF failure THEN "closeall_map" ELSE "closeall_range"]
    /\ closing' = [closing EXCEPT ![t] = NoConn]
    /\ UNCHANGED <<mutex, isClosed, conns, connsNil, op, arg, ret, iter, cur,
                 fetchVars, relayVars, proxyVars>>

\* CloseAll: conn.Close() returns, with or without an error; the loop
\* body discards the result.
CloseAllClose(t) ==
    /\ pc[t] = "closeall_close"
    /\ \E failure \in BOOLEAN :
        calls' = [calls EXCEPT
                    ![cur[t]].closed[closing[t]] = @ + 1,
                    ![cur[t]].failed =
                        IF failure THEN @ \cup {closing[t]} ELSE @]
    /\ closing' = [closing EXCEPT ![t] = NoConn]
    /\ pc' = [pc EXCEPT ![t] = "closeall_range"]
    /\ UNCHANGED <<mutex, isClosed, conns, connsNil, op, arg, ret, iter, cur,
                 fetchVars, relayVars, proxyVars>>

\* A CloseAll that keeps the map it found.
CloseAllMap_Kept(t) ==
    /\ pc[t] = "closeall_map"
    /\ conns' = conns
    /\ connsNil' = connsNil
    /\ pc' = [pc EXCEPT ![t] = "unlock"]
    /\ UNCHANGED <<mutex, isClosed, op, arg, ret, iter, closing, cur, calls,
                 fetchVars, relayVars, proxyVars>>

\* CloseAll: conns.conns = make(map[net.Conn]bool)
CloseAllMap(t) ==
    /\ pc[t] = "closeall_map"
    /\ conns' = {}
    /\ connsNil' = FALSE
    /\ pc' = [pc EXCEPT ![t] = "unlock"]
    /\ UNCHANGED <<mutex, isClosed, op, arg, ret, iter, closing, cur, calls,
                 fetchVars, relayVars, proxyVars>>

\* defer conns.mutex.Unlock(): the method returns and the mutex is free.
Unlock(t) ==
    /\ pc[t] = "unlock"
    /\ mutex' = NoThread
    /\ calls' = [calls EXCEPT ![cur[t]].done = TRUE,
                              ![cur[t]].ret = ret[t],
                              ![cur[t]].postClosed = isClosed,
                              ![cur[t]].postConns = conns,
                              ![cur[t]].postNil = connsNil]
    /\ pc' = [pc EXCEPT ![t] = "idle"]
    /\ UNCHANGED <<isClosed, conns, connsNil, op, arg, ret, iter, closing, cur,
                 fetchVars, relayVars, proxyVars>>

ConnsNext ==
    \E t \in Threads :
        \/ \E c \in ConnIds : Call(t, "Add", c)
        \/ \E c \in ConnIds : Call(t, "Remove", c)
        \/ Call(t, "CloseAll", NoConn)
        \/ Call(t, "Reset", NoConn)
        \/ Lock(t)
        \/ ResetFlag(t)
        \/ ResetMap(t)
        \/ AddCheck(t)
        \/ AddMake(t)
        \/ AddInsert(t)
        \/ RemoveDelete(t)
        \/ CloseAllFlag(t)
        \/ CloseAllRange(t)
        \/ CloseAllClose(t)
        \/ CloseAllMap(t)
        \/ Unlock(t)

\* ------------------------------------------------------------------------
\* FetchRemoteServerList and validateRemoteServerList
\* ------------------------------------------------------------------------

\* The key pairs a list may be signed with; "junk" signs nothing.
Signers == {"A", "B"}

\* The values of RemoteServerList.Data.
Payloads == {"e1", "e2"}

\* The values of RemoteServerList.SigningPublicKeyDigest.
KeyDigests == {"dA", "dB"}

\* sha256.New(); hash.Write([]byte(data)); hash.Sum(nil)
Sha256(data) == [sha256 |-> data]

\* The bytes of an RSA PKCS#1 v1.5 signature: which private key produced
\* them, over which digest; signer "junk" is bytes no key produced.
SigBytes ==
    [signer : Signers, digest : {Sha256(d) : d \in Payloads}]
        \cup {[signer |-> "junk", digest |-> Sha256("e1")]}

\* A string as base64.StdEncoding sees it: either standard base64 of some
\* bytes, or a string outside the alphabet.
Base64(bytes) == [b64 |-> TRUE, bytes |-> bytes]

NotBase64(bytes) == [b64 |-> FALSE, bytes |-> bytes]

\* base64.StdEncoding.DecodeString
DecodeString(s) ==
    IF s.b64 THEN [err |-> "nil", bytes |-> s.bytes]
    ELSE [err |-> "illegal base64 data", bytes |-> s.bytes]

\* The DER byte strings a configuration may carry: PKIX encodings of the
\* RSA public keys of A and B and of an ECDSA key, and bytes that are not
\* DER at all.
DerKeys == {"rsaA", "rsaB", "ecdsaC", "junk"}

\* x509.ParsePKIXPublicKey
ParsePKIXPublicKey(der) ==
    CASE der = "rsaA" -> [err |-> "nil", type |-> "*rsa.PublicKey", owner |-> "A"]
      [] der = "rsaB" -> [err |-> "nil", type |-> "*rsa.PublicKey", owner |-> "B"]
      [] der = "ecdsaC" -> [err |-> "nil", type |-> "*ecdsa.PublicKey", owner |-> "C"]
      [] OTHER -> [err |-> "asn1: structure error", type |-> "nil", owner |-> "none"]

\* rsa.VerifyPKCS1v15(pub, crypto.SHA256, digest, sig)
VerifyPKCS1v15(pub, digest, sig) ==
    IF sig.signer = pub.owner /\ sig.digest = digest
    THEN "nil" ELSE "crypto/rsa: verification error"

\* The values of config.RemoteServerListSignaturePublicKey.
ConfigKeys ==
    {Base64(der) : der \in DerKeys} \cup {NotBase64("rsaA")}

\* The values of RemoteServerList.Signature.
SignatureStrings ==
    {Base64(b) : b \in SigBytes}
        \cup {NotBase64([signer |-> "A", digest |-> Sha256("e1")])}

\* The nil *RemoteServerList.
NilList ==
    [isNil |-> TRUE, Data |-> "", SigningPublicKeyDigest |-> "",
     Signature |-> NotBase64([signer |-> "junk", digest |-> Sha256("e1")])]

\* The response bodies the network may deliver: bytes that are not JSON,
\* the JSON literal null, and JSON objects with the three fields.
Bodies ==
    {[json |-> "malformed", record |-> NilList],
     [json |-> "null", record |-> NilList]}
    \cup {[json |-> "object",
           record |-> [isNil |-> FALSE, Data |-> d,
                       SigningPublicKeyDigest |-> k, Signature |-> s]] :
            d \in Payloads, k \in KeyDigests, s \in SignatureStrings}

\* json.Unmarshal(body, &remoteServerList) with remoteServerList a nil
\* pointer: a JSON null leaves the pointer nil and reports no error.
Unmarshal(b) ==
    CASE b.json = "malformed" -> [err |-> "invalid character", ptr |-> NilList]
      [] b.json = "null" -> [err |-> "nil", ptr |-> NilList]
      [] OTHER -> [err |-> "nil", ptr |-> b.record]

\* A validation that decodes the signature and never verifies it.
validateRemoteServerList_NoVerify(key, list) ==
    LET derEncodedPublicKey == DecodeString(key)
        parsed == ParsePKIXPublicKey(derEncodedPublicKey.bytes)
        signature == DecodeString(list.Signature)
    IN  IF derEncodedPublicKey.err # "nil" THEN derEncodedPublicKey.err
        ELSE IF parsed.err # "nil" THEN parsed.err
        ELSE IF parsed.type # "*rsa.PublicKey"
             THEN "unexpected RemoteServerListSignaturePublicKey key type"
        ELSE IF list.isNil THEN "panic"
        ELSE signature.err

\* A validation that also matches the record's SigningPublicKeyDigest
\* against the digest of the configured key (the TODO of lines 117-118).
validateRemoteServerList_DigestChecked(key, list) ==
    LET derEncodedPublicKey == DecodeString(key)
        parsed == ParsePKIXPublicKey(derEncodedPublicKey.bytes)
        signature == DecodeString(list.Signature)
        digest == Sha256(list.Data)
    IN  IF derEncodedPublicKey.err # "nil" THEN derEncodedPublicKey.err
        ELSE IF parsed.err # "nil" THEN parsed.err
        ELSE IF parsed.type # "*rsa.PublicKey"
             THEN "unexpected RemoteServerListSignaturePublicKey key type"
        ELSE IF list.isNil THEN "panic"
        ELSE IF signature.err # "nil" THEN signature.err
        ELSE IF list.SigningPublicKeyDigest
                    # (IF parsed.owner = "A" THEN "dA" ELSE "dB")
             THEN "signed with a different key"
        ELSE VerifyPKCS1v15(parsed, digest, signature.bytes)

\* validateRemoteServerList(config, remoteServerList): the error returned,
\* "nil" on success, or "panic" when remoteServerList.Signature is read
\* through a nil pointer.
validateRemoteServerList(key, list) ==
    LET derEncodedPublicKey == DecodeString(key)
        parsed == ParsePKIXPublicKey(derEncodedPublicKey.bytes)
        signature == DecodeString(list.Signature)
        digest == Sha256(list.Data)
    IN  IF derEncodedPublicKey.err # "nil" THEN derEncodedPublicKey.err
        ELSE IF parsed.err # "nil" THEN parsed.err
        ELSE IF parsed.type # "*rsa.PublicKey"
             THEN "unexpected RemoteServerListSignaturePublicKey key type"
        ELSE IF list.isNil THEN "panic"
        ELSE IF signature.err # "nil" THEN signature.err
        ELSE VerifyPKCS1v15(parsed, digest, signature.bytes)

\* What DecodeAndValidateServerEntryList yields for a payload it accepts.
Entries(data) == [decodedFrom |-> data]

NoEntries == Entries("")

Invocation(fn, data, replace) == [fn |-> fn, data |-> data, replace |-> replace]

FetchInit ==
    /\ publicKey \in ConfigKeys
    /\ fpc = "get"
    /\ bodyOpen = FALSE
    /\ body = [json |-> "malformed", record |-> NilList]
    /\ remoteServerList = NilList
    /\ serverEntries = NoEntries
    /\ ferr = "none"
    /\ invoked = <<>>

\* return ContextError(err), running the deferred response.Body.Close().
FetchReturn(err) ==
    /\ fpc' = "returned"
    /\ ferr' = err
    /\ bodyOpen' = FALSE

\* response, err := httpClient.Get(config.RemoteServerListUrl)
FetchGet ==
    /\ fpc = "get"
    /\ invoked' = Append(invoked, Invocation("Get", "", FALSE))
    /\ \E failure \in BOOLEAN :
        IF failure
        THEN /\ fpc' = "returned"
             /\ ferr' = "Get failed"
             /\ bodyOpen' = bodyOpen
        ELSE /\ fpc' = "read"
             /\ ferr' = ferr
             /\ bodyOpen' = TRUE
    /\ UNCHANGED <<publicKey, body, remoteServerList, serverEntries, connsVars, relayVars, proxyVars>>

\* body, err := ioutil.ReadAll(response.Body)
FetchReadAll ==
    /\ fpc = "read"
    /\ invoked' = Append(invoked, Invocation("ReadAll", "", FALSE))
    /\ \/ /\ FetchReturn("ReadAll failed")
          /\ body' = body
       \/ /\ \E b \in Bodies : body' = b
          /\ fpc' = "unmarshal"
          /\ UNCHANGED <<ferr, bodyOpen>>
    /\ UNCHANGED <<publicKey, remoteServerList, serverEntries, connsVars, relayVars, proxyVars>>

\* err = json.Unmarshal(body, &remoteServerList)
FetchUnmarshal ==
    /\ fpc = "unmarshal"
    /\ invoked' = Append(invoked, Invocation("Unmarshal", "", FALSE))
    /\ LET r == Unmarshal(body)
       IN  IF r.err # "nil"
           THEN /\ FetchReturn(r.err)
                /\ remoteServerList' = remoteServerList
           ELSE /\ remoteServerList' = r.ptr
                /\ fpc' = "validate"
                /\ UNCHANGED <<ferr, bodyOpen>>
    /\ UNCHANGED <<publicKey, body, serverEntries, connsVars, relayVars, proxyVars>>

\* A fetch that goes on whatever validateRemoteServerList returned.
ValidationPassed_Ignored(err) == TRUE

\* Whether FetchRemoteServerList goes on after validateRemoteServerList
\* returned err.
ValidationPassed(err) == err = "nil"

\* err = validateRemoteServerList(config, remoteServerList)
FetchValidate ==
    /\ fpc = "validate"
    /\ invoked' = Append(invoked, Invocation("validate", remoteServerList.Data, FALSE))
    /\ LET err == validateRemoteServerList(publicKey, remoteServerList)
       IN  IF err = "panic"
           THEN /\ fpc' = "panicked"
                /\ bodyOpen' = FALSE
                /\ ferr' = ferr
           ELSE IF ValidationPassed(err)
           THEN /\ fpc' = "decode"
                /\ UNCHANGED <<ferr, bodyOpen>>
           ELSE FetchReturn(err)
    /\ UNCHANGED <<publicKey, body, remoteServerList, serverEntries, connsVars, relayVars, proxyVars>>

\* The string FetchRemoteServerList hands to the decoder.
DecodeArgument == remoteServerList.Data

\* serverEntries, err := DecodeAndValidateServerEntryList(remoteServerList.Data)
FetchDecode ==
    /\ fpc = "decode"
    /\ invoked' = Append(invoked, Invocation("Decode", DecodeArgument, FALSE))
    /\ \/ /\ FetchReturn("Decode failed")
          /\ serverEntries' = serverEntries
       \/ /\ serverEntries' = Entries(DecodeArgument)
          /\ fpc' = "store"
          /\ UNCHANGED <<ferr, bodyOpen>>
    /\ UNCHANGED <<publicKey, body, remoteServerList, connsVars, relayVars, proxyVars>>

\* The replace flag FetchRemoteServerList passes to StoreServerEntries.
ReplaceFlag == TRUE

\* err = StoreServerEntries(serverEntries, true); return nil
FetchStore ==
    /\ fpc = "store"
    /\ invoked' = Append(invoked,
                         Invocation("Store", serverEntries.decodedFrom, ReplaceFlag))
    /\ \E failure \in BOOLEAN :
        FetchReturn(IF failure THEN "Store failed" ELSE "nil")
    /\ UNCHANGED <<publicKey, body, remoteServerList, serverEntries, connsVars, relayVars, proxyVars>>

FetchNext ==
    \/ FetchGet
    \/ FetchReadAll
    \/ FetchUnmarshal
    \/ FetchValidate
    \/ FetchDecode
    \/ FetchStore

\* ------------------------------------------------------------------------
\* Relay
\* ------------------------------------------------------------------------

\* The chunks the two peers send in one behaviour.
MaxChunks == 2

\* The two net.Conn arguments of Relay.
RelayConns == {"localConn", "remoteConn"}

\* The two io.Copy calls: the one of the calling path and the one of the
\* goroutine.
Directions == {"toRemote", "toLocal"}

\* io.Copy(remoteConn, localConn) reads localConn;
\* io.Copy(localConn, remoteConn) reads remoteConn.
Src(d) == IF d = "toRemote" THEN "localConn" ELSE "remoteConn"

Dst(d) == IF d = "toRemote" THEN "remoteConn" ELSE "localConn"

RelayAlert(d) == [fn |-> "Relay", about |-> d]

RelayInit ==
    /\ relayPc = "start"
    /\ goPc = "unborn"
    /\ copyWaitGroup = 0
    /\ connClosed = [c \in RelayConns |-> FALSE]
    /\ inbox = [c \in RelayConns |-> 0]
    /\ peerDone = [c \in RelayConns |-> FALSE]
    /\ sent = [c \in RelayConns |-> 0]
    /\ delivered = [c \in RelayConns |-> 0]
    /\ copyErr = [d \in Directions |-> "none"]
    /\ alerts = {}

\* The peer of conn c sends a chunk.
PeerSend(c) ==
    /\ sent["localConn"] + sent["remoteConn"] < MaxChunks
    /\ ~connClosed[c]
    /\ ~peerDone[c]
    /\ inbox' = [inbox EXCEPT ![c] = @ + 1]
    /\ sent' = [sent EXCEPT ![c] = @ + 1]
    /\ UNCHANGED <<relayPc, goPc, copyWaitGroup, connClosed, peerDone, delivered,
                 copyErr, alerts, connsVars, fetchVars, proxyVars>>

\* The peer of conn c ends its stream.
PeerFinish(c) ==
    /\ ~peerDone[c]
    /\ peerDone' = [peerDone EXCEPT ![c] = TRUE]
    /\ UNCHANGED <<relayPc, goPc, copyWaitGroup, connClosed, inbox, sent, delivered,
                 copyErr, alerts, connsVars, fetchVars, proxyVars>>

\* Somebody closes conn c (its owner, or a CloseAll of a registry holding it).
CloseConn(c) ==
    /\ ~connClosed[c]
    /\ connClosed' = [connClosed EXCEPT ![c] = TRUE]
    /\ UNCHANGED <<relayPc, goPc, copyWaitGroup, inbox, peerDone, sent, delivered,
                 copyErr, alerts, connsVars, fetchVars, proxyVars>>

\* copyWaitGroup.Add(1); go func() { ... }()
RelayStart ==
    /\ relayPc = "start"
    /\ copyWaitGroup' = copyWaitGroup + 1
    /\ goPc' = "copy"
    /\ relayPc' = "copy"
    /\ UNCHANGED <<connClosed, inbox, peerDone, sent, delivered, copyErr, alerts,
                 connsVars, fetchVars, proxyVars>>

\* What the next Read/Write round of io.Copy in direction d does: "err"
\* when Read or Write fails on a closed conn, "more" when a chunk goes
\* through, "nil" at the end of the stream, "blocked" while Read waits.
CopyOutcome(d) ==
    IF connClosed[Src(d)] THEN "err"
    ELSE IF inbox[Src(d)] > 0
         THEN IF connClosed[Dst(d)] THEN "err" ELSE "more"
    ELSE IF peerDone[Src(d)] THEN "nil"
    ELSE "blocked"

\* One round of io.Copy in direction d, and, when it is the last, the
\* statement after it: if err != nil { NoticeAlert("Relay failed: ...") }
CopyRound(d) ==
    /\ CopyOutcome(d) # "blocked"
    /\ inbox' = IF ~connClosed[Src(d)] /\ inbox[Src(d)] > 0
                THEN [inbox EXCEPT ![Src(d)] = @ - 1] ELSE inbox
    /\ delivered' = IF CopyOutcome(d) = "more"
                    THEN [delivered EXCEPT ![Dst(d)] = @ + 1] ELSE delivered
    /\ copyErr' = IF CopyOutcome(d) = "more" THEN copyErr
                  ELSE [copyErr EXCEPT ![d] = CopyOutcome(d)]
    /\ alerts' = IF CopyOutcome(d) = "err"
                 THEN alerts \cup {RelayAlert(d)} ELSE alerts

\* _, err := io.Copy(remoteConn, localConn) on the calling path.
RelayCopy ==
    /\ relayPc = "copy"
    /\ CopyRound("toRemote")
    /\ relayPc' = IF CopyOutcome("toRemote") = "more" THEN "copy" ELSE "wait"
    /\ UNCHANGED <<goPc, copyWaitGroup, connClosed, peerDone, sent,
                 connsVars, fetchVars, proxyVars>>

\* _, err := io.Copy(localConn, remoteConn) in the goroutine.
GoCopy ==
    /\ goPc = "copy"
    /\ CopyRound("toLocal")
    /\ goPc' = IF CopyOutcome("toLocal") = "more" THEN "copy" ELSE "exit"
    /\ UNCHANGED <<relayPc, copyWaitGroup, connClosed, peerDone, sent,
                 connsVars, fetchVars, proxyVars>>

\* A goroutine that ends without copyWaitGroup.Done().
GoDone_Missing ==
    /\ goPc = "exit"
    /\ copyWaitGroup' = copyWaitGroup
    /\ goPc' = "done"
    /\ UNCHANGED <<relayPc, connClosed, inbox, peerDone, sent, delivered, copyErr,
                 alerts, connsVars, fetchVars, proxyVars>>

\* defer copyWaitGroup.Done(): the goroutine ends.
GoDone ==
    /\ goPc = "exit"
    /\ copyWaitGroup' = copyWaitGroup - 1
    /\ goPc' = "done"
    /\ UNCHANGED <<relayPc, connClosed, inbox, peerDone, sent, delivered, copyErr,
                 alerts, connsVars, fetchVars, proxyVars>>

\* A Wait() that returns at once.
WaitOver_Always == TRUE

\* copyWaitGroup.Wait() returns when the counter is zero.
WaitOver == copyWaitGroup = 0

\* copyWaitGroup.Wait(); Relay returns.
RelayWait ==
    /\ relayPc = "wait"
    /\ WaitOver
    /\ relayPc' = "returned"
    /\ UNCHANGED <<goPc, copyWaitGroup, connClosed, inbox, peerDone, sent,
                 delivered, copyErr, alerts, connsVars, fetchVars, proxyVars>>

RelayNext ==
    \/ \E c \in RelayConns : PeerSend(c)
    \/ \E c \in RelayConns : PeerFinish(c)
    \/ \E c \in RelayConns : CloseConn(c)
    \/ RelayStart
    \/ RelayCopy
    \/ GoCopy
    \/ GoDone
    \/ RelayWait

\* ------------------------------------------------------------------------
\* HttpProxyConnect
\* ------------------------------------------------------------------------
\* Strings are sequences of tokens: words, and the separators " ", ":",
\* "[", "]" and "CRLF" each as a token of their own.

\* The addr arguments: host:port with a name, an IPv4 and an IPv6 literal,
\* and the malformed ones (no port, too many colons, no closing bracket).
Addresses ==
    {<<"example.com", ":", "443">>,
     <<"psiphon.ca", ":", "22">>,
     <<"localhost", ":", "8080">>,
     <<"10.0.0.1", ":", "8080">>,
     <<"[", "::1", "]", ":", "80">>,
     <<"example.com">>,
     <<"a", ":", "b", ":", "80">>,
     <<"[", "::1", ":", "80">>}

\* The status lines a proxy may answer with. "404" with nothing after it
\* and "404" followed by one space are both lines without a reason phrase.
StatusLines ==
    {<<"HTTP/1.1", " ", "200", " ", "Connection", " ", "Established">>,
     <<"HTTP/1.1", " ", "200", " ", "OK">>,
     <<"HTTP/1.1", " ", "200">>,
     <<"HTTP/1.1", " ", "403", " ", "Forbidden">>,
     <<"HTTP/1.1", " ", "404", " ", "Not", " ", "Found">>,
     <<"HTTP/1.1", " ", "407", " ", "Proxy", " ", "Authentication", " ", "Required">>,
     <<"HTTP/1.1", " ", "502", " ", "Bad", " ", "Gateway">>,
     <<"HTTP/1.1", " ", "404">>,
     <<"HTTP/1.1", " ", "404", " ">>,
     <<"HTTP/1.1", " ", "abc", " ", "Oops">>,
     <<"HTTP/1.1">>}

\* The positions of token tok in string str.
Positions(str, tok) == {i \in 1 .. Len(str) : str[i] = tok}

Min(S) == CHOOSE x \in S : \A y \in S : x <= y

Max(S) == CHOOSE x \in S : \A y \in S : x >= y

\* net.SplitHostPort(hostport): the host, or the error.
SplitHostPort(hostport) ==
    LET colons == Positions(hostport, ":")
        closes == Positions(hostport, "]")
        fail(why) == [err |-> why, host |-> <<>>]
    IN  IF colons = {} THEN fail("missing port in address")
        ELSE LET i == Max(colons)
             IN  IF hostport[1] = "["
                 THEN IF closes = {} THEN fail("missing ']' in address")
                      ELSE LET end == Min(closes)
                           IN  IF end = Len(hostport)
                               THEN fail("missing port in address")
                               ELSE IF end + 1 = i
                               THEN [err |-> "nil",
                                     host |-> SubSeq(hostport, 2, end - 1)]
                               ELSE IF hostport[end + 1] = ":"
                               THEN fail("too many colons in address")
                               ELSE fail("missing port in address")
                 ELSE IF Positions(SubSeq(hostport, 1, i - 1), ":") # {}
                      THEN fail("too many colons in address")
                      ELSE [err |-> "nil", host |-> SubSeq(hostport, 1, i - 1)]

\* A request whose Host header carries the whole address, port included.
ConnectRequest_HostWithPort(a, h) ==
    <<"CONNECT", " ">> \o a \o <<" ", "HTTP/1.1", "CRLF", "Host:", " ">> \o a
        \o <<"CRLF", "Connection:", " ", "Keep-Alive", "CRLF", "CRLF">>

\* fmt.Sprintf("CONNECT %s HTTP/1.1\r\nHost: %s\r\nConnection: Keep-Alive\r\n\r\n",
\*             addr, hostname)
ConnectRequest(a, h) ==
    <<"CONNECT", " ">> \o a \o <<" ", "HTTP/1.1", "CRLF", "Host:", " ">> \o h
        \o <<"CRLF", "Connection:", " ", "Keep-Alive", "CRLF", "CRLF">>

\* strconv.Atoi of the status code token; -1 when it is not a number.
Atoi(tok) ==
    CASE tok = "200" -> 200
      [] tok = "403" -> 403
      [] tok = "404" -> 404
      [] tok = "407" -> 407
      [] tok = "502" -> 502
      [] OTHER -> -1

NoResponse == [err |-> "none", Status |-> <<>>, StatusCode |-> 0]

\* http.ReadResponse on a status line: the protocol is cut off at the first
\* space, Status is the rest, StatusCode its first word as a number.
ReadResponse(line) ==
    LET spaces == Positions(line, " ")
    IN  IF spaces = {}
        THEN [err |-> "malformed HTTP response", Status |-> <<>>, StatusCode |-> 0]
        ELSE LET status == SubSeq(line, Min(spaces) + 1, Len(line))
             IN  IF Atoi(status[1]) < 0
                 THEN [err |-> "malformed HTTP status code",
                       Status |-> status, StatusCode |-> 0]
                 ELSE [err |-> "nil", Status |-> status,
                       StatusCode |-> Atoi(status[1])]

\* strings.SplitN(str, " ", 2)
SplitN2(str) ==
    LET spaces == Positions(str, " ")
    IN  IF spaces = {} THEN <<str>>
        ELSE <<SubSeq(str, 1, Min(spaces) - 1),
               SubSeq(str, Min(spaces) + 1, Len(str))>>

NoError == [set |-> "none", detail |-> <<>>]

NilError == [set |-> "nil", detail |-> <<>>]

\* ContextError(err): the error returned, with the message of err.
ContextError(detail) == [set |-> "err", detail |-> detail]

ProxyInit ==
    /\ proxyPc = "split"
    /\ addr \in Addresses
    /\ hostname = <<>>
    /\ written = <<>>
    /\ readCount = 0
    /\ statusLine = <<>>
    /\ response = NoResponse
    /\ proxyErr = NoError

\* hostname, _, err := net.SplitHostPort(addr)
ProxySplit ==
    /\ proxyPc = "split"
    /\ LET r == SplitHostPort(addr)
       IN  IF r.err # "nil"
           THEN /\ proxyPc' = "returned"
                /\ proxyErr' = ContextError(<<r.err>>)
                /\ hostname' = hostname
           ELSE /\ proxyPc' = "write"
                /\ proxyErr' = proxyErr
                /\ hostname' = r.host
    /\ UNCHANGED <<addr, written, readCount, statusLine, response,
                 connsVars, fetchVars, relayVars>>

\* _, err = rawConn.Write([]byte(connectRequest))
ProxyWrite ==
    /\ proxyPc = "write"
    /\ written' = Append(written, ConnectRequest(addr, hostname))
    /\ \E failure \in BOOLEAN :
        IF failure
        THEN /\ proxyPc' = "returned"
             /\ proxyErr' = ContextError(<<"write failed">>)
        ELSE /\ proxyPc' = "read"
             /\ proxyErr' = proxyErr
    /\ UNCHANGED <<addr, hostname, readCount, statusLine, response,
                 connsVars, fetchVars, relayVars>>

\* response, err := http.ReadResponse(bufio.NewReader(rawConn), nil)
ProxyRead ==
    /\ proxyPc = "read"
    /\ readCount' = readCount + 1
    /\ \/ /\ proxyPc' = "returned"
          /\ proxyErr' = ContextError(<<"unexpected EOF">>)
          /\ UNCHANGED <<statusLine, response>>
       \/ \E line \in StatusLines :
            /\ statusLine' = line
            /\ response' = ReadResponse(line)
            /\ IF ReadResponse(line).err # "nil"
               THEN /\ proxyPc' = "returned"
                    /\ proxyErr' = ContextError(<<ReadResponse(line).err>>)
               ELSE /\ proxyPc' = "check"
                    /\ proxyErr' = proxyErr
    /\ UNCHANGED <<addr, hostname, written, connsVars, fetchVars, relayVars>>

\* if response.StatusCode != 200 {
\*     return ContextError(errors.New(strings.SplitN(response.Status, " ", 2)[1]))
\* }
\* return nil
\* Indexing [1] in a slice of one element panics.
ProxyCheck ==
    /\ proxyPc = "check"
    /\ IF response.StatusCode # 200
       THEN IF Len(SplitN2(response.Status)) < 2
            THEN /\ proxyPc' = "panicked"
                 /\ proxyErr' = proxyErr
            ELSE /\ proxyPc' = "returned"
                 /\ proxyErr' = ContextError(SplitN2(response.Status)[2])
       ELSE /\ proxyPc' = "returned"
            /\ proxyErr' = NilError
    /\ UNCHANGED <<addr, hostname, written, readCount, statusLine, response,
                 connsVars, fetchVars, relayVars>>

ProxyNext ==
    \/ ProxySplit
    \/ ProxyWrite
    \/ ProxyRead
    \/ ProxyCheck

\* HttpProxyConnect before it is called, for the other specifications.
ProxyIdle ==
    /\ proxyPc = "split"
    /\ addr = <<"example.com", ":", "443">>
    /\ hostname = <<>>
    /\ written = <<>>
    /\ readCount = 0
    /\ statusLine = <<>>
    /\ response = NoResponse
    /\ proxyErr = NoError

\* ------------------------------------------------------------------------
\* Specifications
\* ------------------------------------------------------------------------

\* The fetch before it is called, for behaviours of the registry alone.
FetchIdle ==
    /\ publicKey = Base64("rsaA")
    /\ fpc = "get"
    /\ bodyOpen = FALSE
    /\ body = [json |-> "malformed", record |-> NilList]
    /\ remoteServerList = NilList
    /\ serverEntries = NoEntries
    /\ ferr = "none"
    /\ invoked = <<>>

\* The zero-value registry and a fetch not yet called.
ConnsSpecInit == ConnsInit /\ FetchIdle /\ RelayInit /\ ProxyIdle

ConnsSpec == ConnsSpecInit /\ [][ConnsNext]_vars

\* A fetch about to start under any configured key; the registry untouched.
FetchSpecInit == ConnsInit /\ FetchInit /\ RelayInit /\ ProxyIdle

FetchSpec == FetchSpecInit /\ [][FetchNext]_vars

\* A Relay just called on two open conns; registry and fetch untouched.
RelaySpecInit == ConnsInit /\ FetchIdle /\ RelayInit /\ ProxyIdle

\* An HttpProxyConnect just called with any of the addresses.
ProxySpecInit == ConnsInit /\ FetchIdle /\ RelayInit /\ ProxyInit

ProxySpec == ProxySpecInit /\ [][ProxyNext]_vars

RelaySpec == RelaySpecInit /\ [][RelayNext]_vars

\* The Go scheduler runs every goroutine that can take a step: the two
\* copies, the deferred Done and the Wait are not postponed forever.
RelayFairSpec ==
    /\ RelaySpecInit
    /\ [][RelayNext]_vars
    /\ WF_vars(RelayStart)
    /\ WF_vars(RelayCopy)
    /\ WF_vars(GoCopy)
    /\ WF_vars(GoDone)
    /\ WF_vars(RelayWait)

\* ------------------------------------------------------------------------
\* Properties of the registry
\* ------------------------------------------------------------------------

CallIdx == 1 .. Len(calls)

\* The calls of method o that have returned.
Returned(o) == {i \in CallIdx : calls[i].op = o /\ calls[i].done}

\* C1: FetchRemoteServerList invokes DecodeAndValidateServerEntryList and
\* StoreServerEntries only after validateRemoteServerList has returned
\* success for the record's Data string, and that string is what is decoded
\* and stored; when validation fails neither collaborator is invoked.
C1_ValidatedBeforeUse ==
    \A i \in 1 .. Len(invoked) :
        invoked[i].fn \in {"Decode", "Store"} =>
            /\ validateRemoteServerList(publicKey, remoteServerList) = "nil"
            /\ ~remoteServerList.isNil
            /\ invoked[i].data = remoteServerList.Data
            /\ \E j \in 1 .. (i - 1) :
                /\ invoked[j].fn = "validate"
                /\ invoked[j].data = invoked[i].data

C1_Witness ==
    /\ fpc = "returned"
    /\ ferr = "nil"
    /\ \E i \in 1 .. Len(invoked) : invoked[i].fn = "Store"
    /\ \E i \in 1 .. Len(invoked) : invoked[i].fn = "Decode"

\* C2: an Add on a registry that is not closed returns true and leaves its
\* conn tracked, also when the map was never made; an Add on a closed
\* registry returns false and leaves the membership as it was; no Add is at
\* or past its insertion while the closed flag is true.
C2_AddContract ==
    /\ \A i \in Returned("Add") :
        IF calls[i].preClosed
        THEN /\ calls[i].ret = "false"
             /\ calls[i].postConns = calls[i].preConns
             /\ calls[i].postNil = calls[i].preNil
        ELSE /\ calls[i].ret = "true"
             /\ calls[i].conn \in calls[i].postConns
             /\ calls[i].postConns = calls[i].preConns \cup {calls[i].conn}
             /\ ~calls[i].postNil
    /\ \A t \in Threads :
        /\ pc[t] \in {"add_make", "add_insert"} => ~isClosed
        /\ (op[t] = "Add" /\ pc[t] = "unlock" /\ ret[t] = "true") =>
              ~isClosed /\ arg[t] \in conns

C2_Witness ==
    /\ \E i \in Returned("Add") :
        calls[i].preNil /\ ~calls[i].preClosed /\ calls[i].ret = "true"
    /\ \E i \in Returned("Add") :
        calls[i].preClosed /\ calls[i].ret = "false"

\* C3: a CloseAll sets the closed flag, calls Close exactly once on every
\* conn that was a member when it took the lock and on no other conn, goes
\* through all members whatever the individual Close calls return, and
\* leaves the membership empty.
C3_CloseAllContract ==
    \A i \in CallIdx :
        calls[i].op = "CloseAll" =>
            /\ \A c \in ConnIds :
                /\ calls[i].closed[c] <= 1
                /\ calls[i].closed[c] = 1 => c \in calls[i].preConns
            /\ calls[i].failed \subseteq calls[i].preConns
            /\ calls[i].done =>
                /\ calls[i].postClosed
                /\ calls[i].postConns = {}
                /\ \A c \in calls[i].preConns : calls[i].closed[c] = 1

C3_Witness ==
    \E i \in Returned("CloseAll") :
        /\ calls[i].preConns = ConnIds
        /\ calls[i].failed # {}
        /\ calls[i].failed # ConnIds

\* The step of goroutine t that leaves statement label.
Leaves(t, label) == pc[t] = label /\ pc'[t] # label

\* No Reset took the lock after call i and before call j.
NoResetBetween(i, j) ==
    \A k \in (i + 1) .. (j - 1) : calls[k].op # "Reset"

\* C4: the registry starts empty and open; only CloseAll closes it and only
\* Reset opens it again, so every call that takes the lock after a CloseAll
\* with no Reset in between finds it closed and leaves it closed, and every
\* such Add returns false.
C4_Lifecycle ==
    /\ ~isClosed /\ conns = {}
    /\ [][/\ (~isClosed /\ isClosed') =>
                \E t \in Threads : op[t] = "CloseAll" /\ Leaves(t, "closeall_flag")
          /\ (isClosed /\ ~isClosed') =>
                \E t \in Threads : op[t] = "Reset" /\ Leaves(t, "reset_flag")]_vars
    /\ [](\A i \in CallIdx : \A j \in CallIdx :
            (/\ calls[i].op = "CloseAll"
             /\ i < j
             /\ calls[j].op \in {"Add", "Remove", "CloseAll"}
             /\ NoResetBetween(i, j)) =>
                /\ calls[j].preClosed
                /\ calls[j].done =>
                    /\ calls[j].postClosed
                    /\ calls[j].op = "Add" => calls[j].ret = "false")

C4_Witness ==
    \E i \in Returned("CloseAll") :
        /\ \E j \in Returned("Add") :
            i < j /\ NoResetBetween(i, j) /\ calls[j].ret = "false"
        /\ \E j \in Returned("Remove") \cup Returned("CloseAll") :
            i < j /\ NoResetBetween(i, j) /\ calls[j].postClosed

\* C5: a Reset, from any state, leaves the closed flag false and the
\* membership empty, and the call that takes the lock next finds exactly
\* that; after CloseAll and then Reset the next Add returns true and tracks
\* its conn.
C5_ResetContract ==
    \A i \in Returned("Reset") :
        /\ ~calls[i].postClosed
        /\ calls[i].postConns = {}
        /\ (i + 1) \in CallIdx =>
            /\ ~calls[i + 1].preClosed
            /\ calls[i + 1].preConns = {}
            /\ (calls[i + 1].op = "Add" /\ calls[i + 1].done) =>
                /\ calls[i + 1].ret = "true"
                /\ calls[i + 1].postConns = {calls[i + 1].conn}

C5_Witness ==
    \E i \in Returned("Reset") :
        /\ (i - 1) \in Returned("CloseAll")
        /\ calls[i].preClosed
        /\ (i + 1) \in Returned("Add")
        /\ calls[i + 1].ret = "true"

\* C6: a Remove deletes its conn and nothing else: the closed flag, the
\* other members and the nil-ness of the map stay as they were and no
\* Close is called; removing a conn that is not tracked (on a nil map, a
\* closed registry, or a second time) changes nothing.
C6_RemoveIdempotent ==
    /\ \A i \in CallIdx :
        calls[i].op = "Remove" =>
            /\ calls[i].closed = ZeroCount
            /\ calls[i].failed = {}
            /\ calls[i].done =>
                /\ calls[i].postClosed = calls[i].preClosed
                /\ calls[i].postNil = calls[i].preNil
                /\ calls[i].postConns = calls[i].preConns \ {calls[i].conn}
                /\ calls[i].conn \notin calls[i].preConns =>
                        calls[i].postConns = calls[i].preConns
    /\ \A i \in Returned("Remove") :
        ((i + 1) \in Returned("Remove") /\ calls[i + 1].conn = calls[i].conn) =>
            /\ calls[i + 1].postConns = calls[i].postConns
            /\ calls[i + 1].postClosed = calls[i].postClosed
            /\ calls[i + 1].postNil = calls[i].postNil

C6_Witness ==
    \E i \in Returned("Remove") :
        /\ calls[i].conn \in calls[i].preConns
        /\ (i + 1) \in Returned("Remove")
        /\ calls[i + 1].conn = calls[i].conn

\* One method run alone from registry state s: the state it leaves, what it
\* returns and how often it calls Close on each conn.
Sequential(s, o, c) ==
    CASE o = "Reset" ->
            [isClosed |-> FALSE, conns |-> {}, nil |-> FALSE,
             ret |-> "none", closed |-> ZeroCount]
      [] o = "Add" ->
            IF s.isClosed
            THEN [isClosed |-> TRUE, conns |-> s.conns, nil |-> s.nil,
                  ret |-> "false", closed |-> ZeroCount]
            ELSE [isClosed |-> FALSE, conns |-> s.conns \cup {c}, nil |-> FALSE,
                  ret |-> "true", closed |-> ZeroCount]
      [] o = "Remove" ->
            [isClosed |-> s.isClosed, conns |-> s.conns \ {c}, nil |-> s.nil,
             ret |-> "none", closed |-> ZeroCount]
      [] o = "CloseAll" ->
            [isClosed |-> TRUE, conns |-> {}, nil |-> FALSE,
             ret |-> "none",
             closed |-> [x \in ConnIds |-> IF x \in s.conns THEN 1 ELSE 0]]

\* The sequential execution of the first n calls of the log, in the order
\* they took the lock, from the zero-value registry.
RECURSIVE Replay(_)
Replay(n) ==
    IF n = 0
    THEN [isClosed |-> FALSE, conns |-> {}, nil |-> TRUE,
          ret |-> "none", closed |-> ZeroCount]
    ELSE Sequential(Replay(n - 1), calls[n].op, calls[n].conn)

\* C7: whatever the interleaving of the callers, each call that has
\* returned left the closed flag and the membership, returned the value and
\* closed the conns that the sequential execution of the calls in
\* lock-acquisition order gives; when no call is in its critical section
\* the registry is in the state that execution ends in.
C7_Linearizable ==
    /\ \A i \in CallIdx :
        calls[i].done =>
            LET r == Replay(i)
            IN  /\ calls[i].ret = r.ret
                /\ calls[i].closed = r.closed
                /\ calls[i].postClosed = r.isClosed
                /\ calls[i].postConns = r.conns
                /\ calls[i].postNil = r.nil
    /\ (\A i \in CallIdx : calls[i].done) =>
            LET r == Replay(Len(calls))
            IN  /\ isClosed = r.isClosed
                /\ conns = r.conns
                /\ connsNil = r.nil

C7_Witness ==
    /\ Len(calls) = MaxCalls
    /\ \A i \in CallIdx : calls[i].done
    /\ \A t \in Threads : \E i \in CallIdx : calls[i].t = t
    /\ \E i \in Returned("CloseAll") : calls[i].preConns # {}
    /\ \E i \in Returned("Add") : calls[i].ret = "false"
    /\ \A t \in Threads : pc[t] = "idle"

\* Call j is an Add of c that returned true.
AddedBy(j, c) ==
    calls[j].op = "Add" /\ calls[j].conn = c /\ calls[j].ret = "true"

\* Call k takes c out of the membership.
Drops(k, c) ==
    \/ calls[k].op \in {"Reset", "CloseAll"}
    \/ calls[k].op = "Remove" /\ calls[k].conn = c

C9_AsStated ==
    \A t \in Threads : closing[t] # NoConn => mutex # t

\* C9 amended: Reset, Add and Remove perform no operation on a conn; the
\* only one performed under the mutex is the Close that CloseAll calls on
\* each member, which runs with the mutex held by that CloseAll, so that
\* concurrent Add, Remove and Reset wait until every member is closed.
C9_OnlyCloseUnderLock ==
    \A t \in Threads :
        /\ op[t] \in {"Reset", "Add", "Remove"} => closing[t] = NoConn
        /\ closing[t] # NoConn =>
            /\ op[t] = "CloseAll"
            /\ pc[t] = "closeall_close"
            /\ mutex = t
            /\ \A u \in Threads \ {t} : pc[u] \in {"idle", "lock"}

C9_Witness ==
    \E t \in Threads :
        /\ closing[t] # NoConn
        /\ \E u \in Threads \ {t} : pc[u] = "lock" /\ op[u] = "Add"

\* ------------------------------------------------------------------------
\* Properties of the fetch
\* ------------------------------------------------------------------------

FetchOrder == <<"Get", "ReadAll", "Unmarshal", "validate", "Decode", "Store">>

\* The steps run so far are the first steps of the pipeline, in its order.
InPipelineOrder ==
    /\ Len(invoked) <= Len(FetchOrder)
    /\ \A i \in 1 .. Len(invoked) : invoked[i].fn = FetchOrder[i]

\* C10: the steps run in the order Get, ReadAll, Unmarshal, validate,
\* Decode, Store, each only after the earlier ones succeeded; a step that
\* fails ends the function, which returns that failure as its error;
\* StoreServerEntries is called at most once and with replace true; nil is
\* returned only when all six steps ran.
C10_FirstFailureReturned ==
    /\ InPipelineOrder
    /\ \A i \in 1 .. Len(invoked) : invoked[i].fn = "Store" => invoked[i].replace
    /\ (fpc = "returned" /\ ferr = "nil") => Len(invoked) = Len(FetchOrder)
    /\ (Len(invoked) >= 3 /\ Unmarshal(body).err # "nil") =>
            fpc = "returned" /\ ferr = Unmarshal(body).err /\ Len(invoked) = 3
    /\ (Len(invoked) >= 4
            /\ validateRemoteServerList(publicKey, remoteServerList) # "nil") =>
            /\ fpc = "returned"
            /\ ferr # "nil"
            /\ Len(invoked) = 4
    /\ fpc \in {"get", "read", "unmarshal", "validate", "decode", "store", "returned"}
    /\ fpc # "returned" => ferr = "none"

\* validateRemoteServerList has been called in this fetch.
ValidationRan == Len(invoked) >= 4

\* ... and returned nil: the fetch went on to the decoder.
ValidationSucceeded == ValidationRan /\ (fpc = "decode" \/ Len(invoked) >= 5)

\* The key pair whose public key the configured string encodes, "none" when
\* the string is not base64 of the PKIX encoding of an RSA public key.
ConfiguredRsaOwner ==
    IF ~publicKey.b64 THEN "none"
    ELSE IF publicKey.bytes = "rsaA" THEN "A"
    ELSE IF publicKey.bytes = "rsaB" THEN "B"
    ELSE "none"

\* C11: validateRemoteServerList returns success if and only if the
\* configured key is base64 of a PKIX RSA public key, the record's signature
\* is base64, and the signature was made with that key's private half over
\* the SHA-256 digest of the record's Data; so it fails for an ECDSA key,
\* for another RSA key, and for a Data or signature other than what was
\* signed.
C11_ValidIffSignedByConfiguredKey ==
    ValidationRan =>
        (ValidationSucceeded <=>
            /\ ~remoteServerList.isNil
            /\ ConfiguredRsaOwner \in Signers
            /\ remoteServerList.Signature.b64
            /\ remoteServerList.Signature.bytes.signer = ConfiguredRsaOwner
            /\ remoteServerList.Signature.bytes.digest
                    = Sha256(remoteServerList.Data))

C11_Witness ==
    /\ ValidationSucceeded
    /\ publicKey = Base64("rsaB")
    /\ remoteServerList.Data = "e2"

\* The record with its SigningPublicKeyDigest replaced by k.
WithKeyDigest(list, k) == [list EXCEPT !.SigningPublicKeyDigest = k]

\* C16: the record's SigningPublicKeyDigest does not influence the
\* outcome: the validation of the fetched record succeeded exactly if the
\* validation of the same record under any other digest value succeeds,
\* those validations return the same error, and what is decoded and stored
\* is the Data string whatever the digest.
C16_DigestIgnored ==
    (ValidationRan /\ ~remoteServerList.isNil) =>
        \A k \in KeyDigests :
            /\ ValidationSucceeded <=>
                validateRemoteServerList(publicKey,
                                         WithKeyDigest(remoteServerList, k)) = "nil"
            /\ validateRemoteServerList(publicKey,
                                        WithKeyDigest(remoteServerList, k))
                = validateRemoteServerList(publicKey, remoteServerList)
            /\ \A i \in 1 .. Len(invoked) :
                invoked[i].fn \in {"Decode", "Store"} =>
                    invoked[i].data = WithKeyDigest(remoteServerList, k).Data

C16_Witness ==
    /\ fpc = "returned"
    /\ ferr = "nil"
    /\ publicKey = Base64("rsaA")
    /\ remoteServerList.SigningPublicKeyDigest = "dB"

\* ------------------------------------------------------------------------
\* Further properties of the registry
\* ------------------------------------------------------------------------

\* C18 as stated: in every reachable state the closed flag being true
\* implies that the membership is empty.
C18_AsStated == isClosed => conns = {}

\* C18 amended: whenever no call is inside its critical section the closed
\* flag being true implies that the membership is empty; the flag is true
\* over a non-empty membership only inside a CloseAll that holds the mutex,
\* after line 258 and before line 262.
C18_ClosedImpliesEmpty ==
    /\ mutex = NoThread => (isClosed => conns = {})
    /\ (isClosed /\ conns # {}) =>
        \E t \in Threads :
            /\ mutex = t
            /\ op[t] = "CloseAll"
            /\ pc[t] \in {"closeall_range", "closeall_close", "closeall_map"}

C18_Witness ==
    /\ mutex = NoThread
    /\ isClosed
    /\ \E i \in Returned("CloseAll") : calls[i].preConns # {}
    /\ \E i \in Returned("Add") : calls[i].preClosed

\* C19: Reset calls Close on no conn; the members it drops from an open
\* registry are closed by no later CloseAll unless an Add that took the
\* lock after the Reset tracked them again.
C19_ResetClosesNothing ==
    /\ \A i \in CallIdx :
        calls[i].op = "Reset" =>
            calls[i].closed = ZeroCount /\ calls[i].failed = {}
    /\ \A i \in CallIdx : \A k \in CallIdx :
        (calls[i].op = "Reset" /\ calls[k].op = "CloseAll" /\ i < k) =>
            \A c \in ConnIds :
                calls[k].closed[c] >= 1 =>
                    \E j \in (i + 1) .. (k - 1) : AddedBy(j, c)

C19_Witness ==
    \E i \in Returned("Reset") :
        /\ ~calls[i].preClosed
        /\ calls[i].preConns # {}
        /\ \E k \in Returned("CloseAll") :
            /\ i < k
            /\ \A c \in calls[i].preConns : calls[k].closed[c] = 0

\* ------------------------------------------------------------------------
\* Properties of Relay and of error reporting
\* ------------------------------------------------------------------------

\* C13: Relay has returned only if both io.Copy calls have returned (with
\* nil at end of stream or with an error) and the goroutine has finished,
\* whichever direction ended first.
C13_ReturnsAfterBothCopies ==
    relayPc = "returned" =>
        /\ goPc = "done"
        /\ copyWaitGroup = 0
        /\ \A d \in Directions : copyErr[d] \in {"nil", "err"}

C13_Witness ==
    /\ relayPc = "returned"
    /\ copyErr["toRemote"] = "nil"
    /\ copyErr["toLocal"] = "err"
    /\ delivered["remoteConn"] > 0

\* C14: under fair scheduling, once both conns are closed both copies end,
\* the goroutine finishes and Relay returns, also when only one side ever
\* sent data.
C14_ReturnsOnceBothClosed ==
    (connClosed["localConn"] /\ connClosed["remoteConn"])
        ~> (relayPc = "returned" /\ goPc = "done")

C14_Witness ==
    /\ relayPc = "returned"
    /\ goPc = "done"
    /\ connClosed["localConn"]
    /\ connClosed["remoteConn"]
    /\ sent["localConn"] > 0
    /\ sent["remoteConn"] = 0
    /\ delivered["remoteConn"] > 0

CloseAllAlert(c) == [fn |-> "CloseAll", about |-> c]

\* C15: no error is swallowed: a Relay copy that failed has been logged
\* with NoticeAlert, and so has every Close that failed during a CloseAll.
C15_EveryErrorReported ==
    /\ \A d \in Directions : copyErr[d] = "err" => RelayAlert(d) \in alerts
    /\ \A i \in CallIdx :
        \A c \in calls[i].failed : CloseAllAlert(c) \in alerts

\* The well-formed addresses and the hostname of each, port stripped.
WellFormed ==
    {<<"example.com", ":", "443">>, <<"psiphon.ca", ":", "22">>,
     <<"localhost", ":", "8080">>, <<"10.0.0.1", ":", "8080">>,
     <<"[", "::1", "]", ":", "80">>}

HostOf(a) ==
    CASE a = <<"example.com", ":", "443">> -> <<"example.com">>
      [] a = <<"psiphon.ca", ":", "22">> -> <<"psiphon.ca">>
      [] a = <<"localhost", ":", "8080">> -> <<"localhost">>
      [] a = <<"10.0.0.1", ":", "8080">> -> <<"10.0.0.1">>
      [] a = <<"[", "::1", "]", ":", "80">> -> <<"::1">>
      [] OTHER -> <<>>

\* A well-formed response has been read and the status check is over.
StatusChecked ==
    /\ readCount = 1
    /\ response.err = "nil"
    /\ proxyPc \in {"returned", "panicked"}

\* C12: after a well-formed response, HttpProxyConnect returns nil exactly
\* for status code 200, and for any other status an error whose detail is
\* the status text with the code and the space after it stripped.
C12_NilIffStatus200 ==
    StatusChecked =>
        /\ proxyPc = "returned"
        /\ (proxyErr = NilError) <=> (response.StatusCode = 200)
        /\ response.StatusCode # 200 =>
            /\ proxyErr.set = "err"
            /\ proxyErr.detail = SubSeq(response.Status, 3, Len(response.Status))

\* C17: the steps run in the order parse, write, read, check and stop at
\* the first failure: a malformed address writes and reads nothing, a failed
\* write reads nothing, a read follows one write, and the one request
\* written is CONNECT <addr> HTTP/1.1 with Host the hostname without port
\* and Connection: Keep-Alive.
C17_StepsInOrder ==
    /\ Len(written) <= 1
    /\ readCount <= 1
    /\ readCount = 1 => Len(written) = 1
    /\ response # NoResponse => readCount = 1
    /\ proxyPc \in {"check", "panicked"} => response.err = "nil"
    /\ proxyErr = NilError => response.err = "nil"
    /\ addr \notin WellFormed =>
        /\ written = <<>>
        /\ readCount = 0
        /\ proxyPc # "split" => (proxyPc = "returned" /\ proxyErr.set = "err")
    /\ proxyErr = ContextError(<<"write failed">>) =>
        (proxyPc = "returned" /\ readCount = 0)
    /\ (addr \in WellFormed /\ proxyPc # "split") =>
        \/ proxyPc = "write" /\ written = <<>>
        \/ /\ Len(written) = 1
           /\ written[1] =
                <<"CONNECT", " ">> \o addr
                    \o <<" ", "HTTP/1.1", "CRLF", "Host:", " ">> \o HostOf(addr)
                    \o <<"CRLF", "Connection:", " ", "Keep-Alive", "CRLF", "CRLF">>

C17_Witness ==
    /\ proxyPc = "returned"
    /\ proxyErr = NilError
    /\ addr = <<"[", "::1", "]", ":", "80">>
    /\ Len(written) = 1
    /\ readCount = 1

\* C20: every well-formed response with a status other than 200, the ones
\* without a reason phrase included, ends in a returned error, never in an
\* abnormal termination.
C20_Non200ReturnsError ==
    (readCount = 1 /\ response.err = "nil" /\ response.StatusCode # 200
        /\ proxyPc # "check") =>
        (proxyPc = "returned" /\ proxyErr.set = "err")

====
